---- MODULE Spec2Model ----
(***************************************************************************)
(* Model of the worker proxy (coding/miners/custom_miner.py) and of the    *)
(* coordinator (neurons/validator.py): admission gate, priority scorer and *)
(* the dual-path dispatcher Validator._forward.                            *)
(*                                                                         *)
(* Strings are sequences of Unicode code points; byte strings are          *)
(* sequences of numbers below 256.                                         *)
(***************************************************************************)
EXTENDS Integers, Sequences, FiniteSets, TLC

(***************************************************************************)
(* Bounds of the model.                                                    *)
(***************************************************************************)
\* Longest query / prompt / backend response text, in code points.
MaxLen == 2
\* Largest number of entries of synapse.files.
MaxFiles == 1
\* Largest stake and largest number of registered peers of the metagraph.
MaxStake == 2
MaxPeers == 2
\* Number of inbound requests the coordinator handles concurrently.
MaxReqs == 2

(***************************************************************************)
(* Values.                                                                 *)
(***************************************************************************)
\* Python's None.
None == [tag |-> "None"]
\* A local name that has not been assigned, or an attribute that an object
\* does not have.
Unbound == [tag |-> "Unbound"]
NoAttr == [tag |-> "NoAttr"]
\* Any other value v.
Val(v) == [tag |-> "Val", val |-> v]
IsVal(x) == x.tag = "Val"

\* Code points the texts are made of: "a" (one UTF-8 byte) and "e acute"
\* (two UTF-8 bytes).
Alphabet == {97, 233}

SeqsUpTo(S, n) == UNION {[1..k -> S] : k \in 0..n}

Strings == SeqsUpTo(Alphabet, MaxLen)

\* synapse.files: a mapping path -> content, kept in insertion order.
Paths == {<<97>>}
Contents == {<<>>, <<233>>}
FileMaps == SeqsUpTo(Paths \X Contents, MaxFiles)

(***************************************************************************)
(* Pure helpers of the worker proxy.                                       *)
(***************************************************************************)
\* Python truthiness of synapse.files (line 13): None and {} are false.
Truthy(f) == IsVal(f) /\ f.val # <<>>

\* repr() of a str made of the code points above: the text in single quotes.
Repr(s) == <<39>> \o s \o <<39>>

\* str() of a dict: "{" k: v ", " k: v ... "}".
RECURSIVE DictItems(_)
DictItems(f) ==
    IF f = <<>> THEN <<>>
    ELSE Repr(f[1][1]) \o <<58, 32>> \o Repr(f[1][2])
         \o (IF Len(f) > 1 THEN <<44, 32>> ELSE <<>>) \o DictItems(Tail(f))

DictStr(f) == <<123>> \o DictItems(f) \o <<125>>

\* s * n on a str.
RECURSIVE StrTimes(_, _)
StrTimes(s, n) == IF n <= 0 THEN <<>> ELSE s \o StrTimes(s, n - 1)

\* One code point as one byte, as Latin-1 would encode it.
Latin1Char(c) == <<c>>

\* One code point as UTF-8 (code points below 2048).
Utf8Char(c) ==
    IF c < 128 THEN <<c>> ELSE <<192 + (c \div 64), 128 + (c % 64)>>

\* str.encode("utf-8").
RECURSIVE Utf8Encode(_)
Utf8Encode(s) ==
    IF s = <<>> THEN <<>> ELSE Utf8Char(Head(s)) \o Utf8Encode(Tail(s))

(***************************************************************************)
(* State of one invocation of miner_process.                               *)
(***************************************************************************)
VARIABLES
    synapse,    \* the request envelope: query, prompt (if it has one), files
    files,      \* local name `files` of miner_process
    input,      \* local name `input`: the backend request
    response,   \* local name `response`
    m_pc,       \* where the invocation is
    calls,      \* number of POSTs made to CODE_ENDPOINT
    outcome,    \* what the POST came to (set by the backend, not by the code)
    printed,    \* exceptions printed by the handler at line 24
    sent,       \* frames handed to the streaming sink `send`
    exc         \* the exception that left miner_process / the streamer

(***************************************************************************)
(* State of the coordinator.                                               *)
(***************************************************************************)
VARIABLES
    metagraph,  \* self.metagraph: hotkeys and S
    g_dendrite, \* synapse.dendrite of a direct call of blacklist / priority
    g_call,     \* which of the two was called
    g_result,   \* what the call came to
    g_other,    \* synapse.dendrite of a second call of priority
    g_result2,  \* what the second call came to
    percent_organic_score,  \* self.config.neuron.percent_organic_score, in hundredths
    v_pc,       \* per request: where it is in the pipeline
    dendrite,   \* per request: synapse.dendrite
    organic,    \* per request: what forward_organic_synapse came to
    draw,       \* per request: the value of random.random(), in hundredths
    probe,      \* per request: what get_running_loop() found in the calling context
    bg,         \* per request: the background pass and what runs it
    ret,        \* per request: what _forward handed to its caller
    completion, \* per request: the completion slot of the envelope
    excAt       \* per request: where an exception of the background pass ended

gvars == <<g_dendrite, g_call, g_result, g_other, g_result2>>
dvars ==
    <<percent_organic_score, v_pc, dendrite, organic, draw, probe, bg, ret,
      completion, excAt>>
mvars ==
    <<synapse, files, input, response, m_pc, calls, outcome, printed, sent, exc>>
vars == <<mvars, metagraph, gvars, dvars>>

\* The envelopes an invocation can receive.
Synapses ==
    [query : Strings,
     prompt : {Val(s) : s \in Strings} \cup {NoAttr},
     files : {Val(f) : f \in FileMaps} \cup {None}]

\* What the backend call of lines 20-22 can come to.
\* timeout / transport_error: client.post raises; not_json: response.json()
\* raises; json: response.json() returns the body, a dict.
BackendOutcomes ==
    {[kind |-> k, body |-> [none |-> <<>>]] :
        k \in {"timeout", "transport_error", "not_json"}}
    \cup {[kind |-> "json", body |-> [response |-> s]] : s \in Strings}
    \cup {[kind |-> "json", body |-> [detail |-> <<97>>]]}

NoOutcome == [kind |-> "none", body |-> [none |-> <<>>]]

MinerStart(syn) ==
    /\ synapse = syn
    /\ files = Unbound
    /\ input = Unbound
    /\ response = Unbound
    /\ m_pc = "Pending"
    /\ calls = 0
    /\ outcome = NoOutcome
    /\ printed = <<>>
    /\ sent = <<>>
    /\ exc = "None"

\* Lines 13-18: bind `files` when synapse.files is truthy, then build the
\* backend request.  Reading an unassigned local raises UnboundLocalError,
\* outside of the try block.
BuildRequest ==
    /\ m_pc = "Pending"
    /\ LET f == IF Truthy(synapse.files)
                THEN Val(DictStr(synapse.files.val)) ELSE Unbound
       IN  /\ files' = f
           /\ IF IsVal(f)
              THEN /\ m_pc' = "BackendCalled"
                   /\ exc' = exc
                   /\ input' = Val([query |-> synapse.query, files |-> f.val])
              ELSE /\ m_pc' = "Raised"
                   /\ exc' = "UnboundLocalError"
                   /\ input' = input
    /\ UNCHANGED <<synapse, response, calls, outcome, printed, sent>>
    /\ UNCHANGED <<metagraph, gvars, dvars>>

\* The value of the except block's right-hand side, synapse.prompt * 10.
Fallback(syn) ==
    IF IsVal(syn.prompt)
    THEN Val([response |-> StrTimes(syn.prompt.val, 10)]) ELSE NoAttr

\* The POST made again after a failure, once.
BackendCallRetries ==
    /\ m_pc = "BackendCalled"
    /\ \E o \in BackendOutcomes :
          /\ calls' = calls + 1
          /\ outcome' = o
          /\ IF o.kind = "json"
             THEN /\ response' = Val(o.body)
                  /\ m_pc' = "Succeeded"
                  /\ UNCHANGED <<printed, exc>>
             ELSE /\ printed' = Append(printed, o.kind)
                  /\ IF calls = 0
                     THEN UNCHANGED <<m_pc, exc, response>>
                     ELSE IF IsVal(Fallback(synapse))
                     THEN /\ m_pc' = "FallbackApplied"
                          /\ exc' = exc
                          /\ response' = Fallback(synapse)
                     ELSE /\ m_pc' = "Raised"
                          /\ exc' = "AttributeError"
                          /\ response' = response
    /\ UNCHANGED <<synapse, files, input, sent>>
    /\ UNCHANGED <<metagraph, gvars, dvars>>

\* Lines 19-27: one POST; its JSON body becomes `response`; any Exception is
\* printed and replaced by the fallback.  An exception raised inside the
\* except block leaves miner_process.
BackendCall ==
    /\ m_pc = "BackendCalled"
    /\ \E o \in BackendOutcomes :
          /\ calls' = calls + 1
          /\ outcome' = o
          /\ IF o.kind = "json"
             THEN /\ response' = Val(o.body)
                  /\ m_pc' = "Succeeded"
                  /\ UNCHANGED <<printed, exc>>
             ELSE /\ printed' = Append(printed, o.kind)
                  /\ IF IsVal(Fallback(synapse))
                     THEN /\ m_pc' = "FallbackApplied"
                          /\ exc' = exc
                          /\ response' = Fallback(synapse)
                     ELSE /\ m_pc' = "Raised"
                          /\ exc' = "AttributeError"
                          /\ response' = response
    /\ UNCHANGED <<synapse, files, input, sent>>
    /\ UNCHANGED <<metagraph, gvars, dvars>>

\* Lines 28-38: the streamer is bound to `response` and handed to
\* create_streaming_response; miner_process returns.
Return ==
    /\ m_pc \in {"Succeeded", "FallbackApplied"}
    /\ m_pc' = "Returned"
    /\ UNCHANGED <<synapse, files, input, response, calls, outcome, printed,
                   sent, exc>>
    /\ UNCHANGED <<metagraph, gvars, dvars>>

\* The one frame sent with more_body left True.
StreamerLeavesOpen ==
    /\ m_pc = "Returned"
    /\ IF "response" \in DOMAIN response.val
       THEN /\ sent' = Append(sent, [type |-> "http.response.body",
                                     body |-> Utf8Encode(response.val.response),
                                     more_body |-> TRUE])
            /\ m_pc' = "Delivered"
            /\ exc' = exc
       ELSE /\ m_pc' = "StreamRaised"
            /\ exc' = "KeyError"
            /\ sent' = sent
    /\ UNCHANGED <<synapse, files, input, response, calls, outcome, printed>>
    /\ UNCHANGED <<metagraph, gvars, dvars>>

\* Lines 28-35: the transport runs the streamer, which sends one body frame
\* made of response["response"]; a dict without that key raises KeyError.
Streamer ==
    /\ m_pc = "Returned"
    /\ IF "response" \in DOMAIN response.val
       THEN /\ sent' = Append(sent, [type |-> "http.response.body",
                                     body |-> Utf8Encode(response.val.response),
                                     more_body |-> FALSE])
            /\ m_pc' = "Delivered"
            /\ exc' = exc
       ELSE /\ m_pc' = "StreamRaised"
            /\ exc' = "KeyError"
            /\ sent' = sent
    /\ UNCHANGED <<synapse, files, input, response, calls, outcome, printed>>
    /\ UNCHANGED <<metagraph, gvars, dvars>>

(***************************************************************************)
(* Admission gate and priority scorer (neurons/validator.py).              *)
(***************************************************************************)
\* The one allow-listed hotkey of Validator.blacklist (line 146).
OwnerHotkey == "5Fy7c6skhxBifdPPEs3TyytxFc7Rq6UdLqysNPZ5AMAUbRQx"

\* Hotkeys callers can present.
Hotkeys == {OwnerHotkey, "5OtherA", "5OtherB"}

\* synapse.dendrite: None, or terminal info whose hotkey is None or a str.
Dendrites ==
    {None} \cup {Val([hotkey |-> h]) : h \in {None} \cup {Val(k) : k \in Hotkeys}}

\* Stake values of metagraph.S, in whole stake units.
Stakes == 0..MaxStake

Injective(q) == \A i, j \in DOMAIN q : q[i] = q[j] => i = j

\* The registry: hotkeys (each registered once) and the stake of each uid.
Metagraphs ==
    UNION {[hotkeys : {q \in [1..n -> Hotkeys] : Injective(q)}, S : [1..n -> Stakes]] :
             n \in 0..MaxPeers}

\* The outcome of a call: a returned value, or the exception it raised.
Returns(v) == [raised |-> "None", value |-> v]
Raises(e) == [raised |-> e, value |-> <<>>]

\* The comparison of line 146 turned around.
blacklistInverted(d) ==
    IF ~IsVal(d) THEN Raises("AttributeError")
    ELSE IF IsVal(d.val.hotkey) /\ d.val.hotkey.val = OwnerHotkey
         THEN Returns(<<TRUE, "Blacklisted">>)
         ELSE Returns(<<FALSE, "Subnet owner hotkey">>)

\* The default of line 148 left admitting.
blacklistNobody(d) ==
    IF ~IsVal(d) THEN Raises("AttributeError")
    ELSE IF IsVal(d.val.hotkey) /\ d.val.hotkey.val = OwnerHotkey
         THEN Returns(<<FALSE, "Subnet owner hotkey">>)
         ELSE Returns(<<FALSE, "Blacklisted">>)

\* Validator.blacklist, lines 146-148.  Reading .hotkey of a None dendrite
\* raises AttributeError.
blacklist(d) ==
    IF ~IsVal(d) THEN Raises("AttributeError")
    ELSE IF IsVal(d.val.hotkey) /\ d.val.hotkey.val = OwnerHotkey
         THEN Returns(<<FALSE, "Subnet owner hotkey">>)
         ELSE Returns(<<TRUE, "Blacklisted">>)

\* list.index: the first position of x in q, 0 when there is none.
IndexOf(q, x) ==
    IF \E i \in DOMAIN q : q[i] = x
    THEN CHOOSE i \in DOMAIN q : q[i] = x /\ \A j \in 1..(i - 1) : q[j] # x
    ELSE 0

\* A hotkey that is not registered scored 0.0 instead of raising.
priorityDefaultsToZero(d, mg) ==
    IF ~IsVal(d) \/ ~IsVal(d.val.hotkey) THEN Returns(0)
    ELSE IF \E i \in DOMAIN mg.hotkeys : mg.hotkeys[i] = d.val.hotkey.val
         THEN Returns(mg.S[CHOOSE i \in DOMAIN mg.hotkeys :
                                  mg.hotkeys[i] = d.val.hotkey.val])
         ELSE Returns(0)

\* The uid returned in place of the stake at that uid.
priorityIsUid(d, mg) ==
    IF ~IsVal(d) \/ ~IsVal(d.val.hotkey) THEN Returns(0)
    ELSE LET caller_uid == IndexOf(mg.hotkeys, d.val.hotkey.val)
         IN  IF caller_uid = 0 THEN Raises("ValueError")
             ELSE Returns(caller_uid)

\* Validator.priority, lines 170-184.  list.index raises ValueError for a
\* hotkey that is not registered; float() of a stake keeps its value.
priority(d, mg) ==
    IF ~IsVal(d) \/ ~IsVal(d.val.hotkey) THEN Returns(0)
    ELSE LET caller_uid == IndexOf(mg.hotkeys, d.val.hotkey.val)
         IN  IF caller_uid = 0 THEN Raises("ValueError")
             ELSE Returns(mg.S[caller_uid])

\* Direct calls of the two handlers: blacklist, or priority for one caller
\* and then for another.
GateStartPair(d, e) ==
    /\ g_dendrite = d
    /\ g_other = e
    /\ g_call = "none"
    /\ g_result = Raises("None")
    /\ g_result2 = Raises("None")

GateStart(d) == GateStartPair(d, None)

CallBlacklist ==
    /\ g_call = "none"
    /\ g_call' = "blacklist"
    /\ g_result' = blacklist(g_dendrite)
    /\ UNCHANGED <<g_dendrite, g_other, g_result2, metagraph, mvars, dvars>>

CallPriority ==
    /\ g_call = "none"
    /\ g_call' = "priority"
    /\ g_result' = priority(g_dendrite, metagraph)
    /\ UNCHANGED <<g_dendrite, g_other, g_result2, metagraph, mvars, dvars>>

\* priority called for a second caller, after the first.
CallPriorityOther ==
    /\ g_call = "priority"
    /\ g_call' = "priority2"
    /\ g_result2' = priority(g_other, metagraph)
    /\ UNCHANGED <<g_dendrite, g_other, g_result, metagraph, mvars, dvars>>

(***************************************************************************)
(* The dispatcher, Validator._forward, behind the admission pipeline.      *)
(***************************************************************************)
Reqs == 1..MaxReqs

\* Values forward_organic_synapse can return.
OrganicResults == {"resultA", "resultB"}

\* random.random() lies in [0.0, 1.0): hundredths 0..99.  The configured
\* threshold lies in [0.0, 1.0]: hundredths 0..100.
Draws == {0, 50, 99}
Thresholds == {0, 50, 100}

\* No background pass.
NoBg ==
    [mech |-> "none", st |-> "none", tasks |-> 0, threads |-> 0,
     thread |-> "none", loop |-> "none"]

\* The comparison of line 95 turned around.
FiresAbove(d, p) == d > p

\* The comparison of line 95 made with <=.
FiresAtOrBelow(d, p) == d <= p

\* Line 95: the pass is scheduled when the draw is below the threshold.
Fires(d, p) == d < p

\* The thread started after the task as well (`finally` for `except`).
ScheduleBoth(loopRunning) ==
    IF loopRunning
    THEN [mech |-> "task", st |-> "pending", tasks |-> 1, threads |-> 1,
          thread |-> "alive", loop |-> "caller"]
    ELSE [mech |-> "thread", st |-> "running", tasks |-> 0, threads |-> 1,
          thread |-> "alive", loop |-> "own"]

\* A thread started whether or not a loop is running.
ScheduleAlwaysThread(loopRunning) ==
    [mech |-> "thread", st |-> "running", tasks |-> 0, threads |-> 1,
     thread |-> "alive", loop |-> "own"]

\* Lines 96-100: with a running loop get_running_loop() returns it and the
\* pass becomes a task on it; without one it raises RuntimeError and a new
\* thread is started whose target runs the pass with asyncio.run, on a loop
\* of its own.
Schedule(loopRunning) ==
    IF loopRunning
    THEN [mech |-> "task", st |-> "pending", tasks |-> 1, threads |-> 0,
          thread |-> "none", loop |-> "caller"]
    ELSE [mech |-> "thread", st |-> "running", tasks |-> 0, threads |-> 1,
          thread |-> "alive", loop |-> "own"]

\* The thread target called in place instead of handed to a thread.
LandingInCaller(b) == IF b.mech = "task" THEN "Task" ELSE "Caller"

\* Lines 92-100: where an exception of the pass ends.  A task keeps it (the
\* loop's exception handler reports it); a thread target's exception goes
\* to threading.excepthook and ends that thread only.
Landing(b) == IF b.mech = "task" THEN "Task" ELSE "Thread"

\* The return placed inside the branch of line 95.
ReturnedOnlyWhenFired(resp, fired) == IF fired THEN resp ELSE "None"

\* Line 102: the value handed back.
Returned(resp, fired) == resp

\* The order of the handlers of one inbound request: admission, then
\* priority, then the dispatcher.
AwaitsAdmission(r) == v_pc[r] = "Received"
AwaitsPriority(r) == v_pc[r] = "Admitted"
AwaitsDispatch(r) == v_pc[r] = "Queued"

DispatcherStart(p) ==
    /\ percent_organic_score = p
    /\ v_pc = [r \in Reqs |-> "Idle"]
    /\ dendrite = [r \in Reqs |-> None]
    /\ organic = [r \in Reqs |-> "none"]
    /\ draw = [r \in Reqs |-> -1]
    /\ probe = [r \in Reqs |-> "unprobed"]
    /\ bg = [r \in Reqs |-> NoBg]
    /\ ret = [r \in Reqs |-> "none"]
    /\ completion = [r \in Reqs |-> "none"]
    /\ excAt = [r \in Reqs |-> "none"]

\* A request arrives; its caller identity comes from the transport headers.
Receive(r) ==
    /\ v_pc[r] = "Idle"
    /\ \E d \in Dendrites :
          dendrite' = [dendrite EXCEPT ![r] = d]
    /\ v_pc' = [v_pc EXCEPT ![r] = "Received"]
    /\ UNCHANGED <<percent_organic_score, organic, draw, probe, bg, ret,
                   completion, excAt>>
    /\ UNCHANGED <<mvars, metagraph, gvars>>

\* The admission gate: blacklist decides.
Admit(r) ==
    /\ AwaitsAdmission(r)
    /\ LET b == blacklist(dendrite[r])
       IN  v_pc' = [v_pc EXCEPT ![r] =
                      IF b.raised # "None" THEN "GateFailed"
                      ELSE IF b.value[1] THEN "Rejected" ELSE "Admitted"]
    /\ UNCHANGED <<percent_organic_score, dendrite, organic, draw, probe, bg, ret,
                   completion, excAt>>
    /\ UNCHANGED <<mvars, metagraph, gvars>>

\* The priority scorer supplies the queueing key.
Prioritize(r) ==
    /\ AwaitsPriority(r)
    /\ LET q == priority(dendrite[r], metagraph)
       IN  v_pc' = [v_pc EXCEPT ![r] =
                      IF q.raised # "None" THEN "PriorityFailed" ELSE "Queued"]
    /\ UNCHANGED <<percent_organic_score, dendrite, organic, draw, probe, bg, ret,
                   completion, excAt>>
    /\ UNCHANGED <<mvars, metagraph, gvars>>

\* Line 90 wrapped in a try block that swallows the exception.
ForwardOrganicSwallows(r) ==
    /\ AwaitsDispatch(r)
    /\ \/ \E v \in OrganicResults :
             /\ organic' = [organic EXCEPT ![r] = v]
             /\ completion' = [completion EXCEPT ![r] = v]
       \/ /\ organic' = [organic EXCEPT ![r] = "raised"]
          /\ completion' = completion
    /\ v_pc' = [v_pc EXCEPT ![r] = "OrganicDone"]
    /\ UNCHANGED <<percent_organic_score, dendrite, draw, probe, bg, ret, excAt>>
    /\ UNCHANGED <<mvars, metagraph, gvars>>

\* Line 90: the organic path returns a value, or raises; an exception leaves
\* _forward at once.
ForwardOrganic(r) ==
    /\ AwaitsDispatch(r)
    /\ \/ \E v \in OrganicResults :
             /\ organic' = [organic EXCEPT ![r] = v]
             /\ completion' = [completion EXCEPT ![r] = v]
             /\ v_pc' = [v_pc EXCEPT ![r] = "OrganicDone"]
             /\ ret' = ret
       \/ /\ organic' = [organic EXCEPT ![r] = "raised"]
          /\ v_pc' = [v_pc EXCEPT ![r] = "Failed"]
          /\ ret' = [ret EXCEPT ![r] = "raised"]
          /\ completion' = completion
    /\ UNCHANGED <<percent_organic_score, dendrite, draw, probe, bg, excAt>>
    /\ UNCHANGED <<mvars, metagraph, gvars>>

\* Lines 95-100: the draw, and the scheduling of the background pass.
ForwardDraw(r) ==
    /\ v_pc[r] = "OrganicDone"
    /\ \E d \in Draws :
          /\ draw' = [draw EXCEPT ![r] = d]
          /\ IF Fires(d, percent_organic_score)
             THEN \E loopRunning \in BOOLEAN :
                     /\ probe' = [probe EXCEPT ![r] =
                                    IF loopRunning THEN "running" ELSE "no loop"]
                     /\ bg' = [bg EXCEPT ![r] = Schedule(loopRunning)]
             ELSE UNCHANGED <<probe, bg>>
    /\ v_pc' = [v_pc EXCEPT ![r] = "Drawn"]
    /\ UNCHANGED <<percent_organic_score, dendrite, organic, ret, completion,
                   excAt>>
    /\ UNCHANGED <<mvars, metagraph, gvars>>

\* The background pass waited for before line 102.
ForwardReturnJoins(r) ==
    /\ v_pc[r] = "Drawn"
    /\ bg[r].st \notin {"pending", "running"}
    /\ ret' = [ret EXCEPT ![r] = organic[r]]
    /\ v_pc' = [v_pc EXCEPT ![r] = "Returned"]
    /\ UNCHANGED <<percent_organic_score, dendrite, organic, draw, probe, bg,
                   completion, excAt>>
    /\ UNCHANGED <<mvars, metagraph, gvars>>

\* Line 102.
ForwardReturn(r) ==
    /\ v_pc[r] = "Drawn"
    /\ ret' = [ret EXCEPT ![r] = Returned(organic[r], bg[r].mech # "none")]
    /\ v_pc' = [v_pc EXCEPT ![r] = "Returned"]
    /\ UNCHANGED <<percent_organic_score, dendrite, organic, draw, probe, bg,
                   completion, excAt>>
    /\ UNCHANGED <<mvars, metagraph, gvars>>

\* The background pass rewriting the completion of the envelope it is given.
SyntheticPassOverwrites(c) == "synthetic"

\* What the background pass, forward(self, synapse), does to the completion
\* of the envelope it shares with the caller: it reads it and leaves it.
SyntheticPass(c) == c

\* What an exception of the background pass does to the request: only one
\* that reaches the caller of _forward fails it.
AfterFailure(r, land) ==
    /\ excAt' = [excAt EXCEPT ![r] = land]
    /\ IF land = "Caller"
       THEN /\ v_pc' = [v_pc EXCEPT ![r] = "Failed"]
            /\ ret' = [ret EXCEPT ![r] = "raised"]
       ELSE UNCHANGED <<v_pc, ret>>

\* Line 98: the loop runs the task.  _forward is synchronous, so the loop
\* it was called on gets control only after _forward has returned.
RunTask(r) ==
    /\ bg[r].mech = "task"
    /\ bg[r].st = "pending"
    /\ v_pc[r] = "Returned"
    /\ \/ /\ bg' = [bg EXCEPT ![r].st = "done"]
          /\ UNCHANGED <<v_pc, ret, excAt>>
       \/ /\ bg' = [bg EXCEPT ![r].st = "failed"]
          /\ AfterFailure(r, Landing(bg[r]))
    /\ completion' = [completion EXCEPT ![r] = SyntheticPass(completion[r])]
    /\ UNCHANGED <<percent_organic_score, dendrite, organic, draw, probe>>
    /\ UNCHANGED <<mvars, metagraph, gvars>>

\* Lines 92-93, 100: the thread runs _run: asyncio.run makes a loop, runs
\* the pass on it and closes it; the thread ends when _run ends, normally or
\* by an exception.
RunThread(r) ==
    /\ bg[r].mech = "thread"
    /\ bg[r].st = "running"
    /\ \/ /\ bg' = [bg EXCEPT ![r].st = "done", ![r].loop = "closed",
                          ![r].thread = "ended"]
          /\ UNCHANGED <<v_pc, ret, excAt>>
       \/ /\ bg' = [bg EXCEPT ![r].st = "failed", ![r].loop = "closed",
                          ![r].thread = "ended"]
          /\ AfterFailure(r, Landing(bg[r]))
    /\ completion' = [completion EXCEPT ![r] = SyntheticPass(completion[r])]
    /\ UNCHANGED <<percent_organic_score, dendrite, organic, draw, probe>>
    /\ UNCHANGED <<mvars, metagraph, gvars>>

(***************************************************************************)
(* Specifications.                                                         *)
(***************************************************************************)
\* An envelope and a registry for the parts a specification leaves idle.
IdleSynapse == [query |-> <<>>, prompt |-> NoAttr, files |-> None]
IdleMetagraph == [hotkeys |-> <<>>, S |-> <<>>]

\* The registries of the pipeline: the owner registered, or not.
PipelineMetagraphs ==
    {[hotkeys |-> <<"5OtherA", OwnerHotkey>>, S |-> <<1, 2>>],
     [hotkeys |-> <<"5OtherA">>, S |-> <<1>>]}

\* The worker proxy: one invocation of miner_process on any envelope.
MinerInit ==
    /\ \E syn \in Synapses : MinerStart(syn)
    /\ metagraph = IdleMetagraph
    /\ GateStart(None)
    /\ DispatcherStart(0)

MinerNext == BuildRequest \/ BackendCall \/ Return \/ Streamer

MinerSpec == MinerInit /\ [][MinerNext]_vars

\* The two handlers called directly, on any caller and any registry.
GateInit ==
    /\ MinerStart(IdleSynapse)
    /\ metagraph \in Metagraphs
    /\ \E d, e \in Dendrites : GateStartPair(d, e)
    /\ DispatcherStart(0)

GateNext == CallBlacklist \/ CallPriority \/ CallPriorityOther

GateSpec == GateInit /\ [][GateNext]_vars

\* The coordinator: concurrent inbound requests through the pipeline.
Init ==
    /\ MinerStart(IdleSynapse)
    /\ metagraph \in PipelineMetagraphs
    /\ GateStart(None)
    /\ \E p \in Thresholds : DispatcherStart(p)

Next ==
    \E r \in Reqs :
        \/ Receive(r)
        \/ Admit(r)
        \/ Prioritize(r)
        \/ ForwardOrganic(r)
        \/ ForwardDraw(r)
        \/ ForwardReturn(r)
        \/ RunTask(r)
        \/ RunThread(r)

Spec == Init /\ [][Next]_vars

\* The coordinator of a registry that holds the owner (with any other, no
\* request reaches _forward) and of a threshold of 0.5 (a draw can fall on
\* either side of it), with the steps of the synchronous _forward always
\* taken in the end; nothing makes a background pass finish.
FairInit ==
    /\ MinerStart(IdleSynapse)
    /\ metagraph = [hotkeys |-> <<"5OtherA", OwnerHotkey>>, S |-> <<1, 2>>]
    /\ GateStart(None)
    /\ DispatcherStart(50)

FairSpec ==
    /\ FairInit
    /\ [][Next]_vars
    /\ \A r \in Reqs : WF_vars(ForwardDraw(r)) /\ WF_vars(ForwardReturn(r))

(***************************************************************************)
(* Properties of the worker proxy, checked under MinerSpec.                *)
(***************************************************************************)
\* bytes.decode("utf-8") of a sequence made of one- and two-byte characters;
\* <<-1>> marks bytes that are not UTF-8.
RECURSIVE Utf8Decode(_)
Utf8Decode(b) ==
    IF b = <<>> THEN <<>>
    ELSE IF b[1] < 128 THEN <<b[1]>> \o Utf8Decode(Tail(b))
    ELSE IF b[1] >= 192 /\ b[1] < 224 /\ Len(b) >= 2 /\ b[2] >= 128 /\ b[2] < 192
         THEN <<(b[1] - 192) * 64 + (b[2] - 128)>> \o Utf8Decode(Tail(Tail(b)))
    ELSE <<-1>>

BackendFailed == outcome.kind \in {"timeout", "transport_error"}
BackendSucceeded == outcome.kind = "json" /\ "response" \in DOMAIN outcome.body
MinerEnded == m_pc \in {"Delivered", "Raised", "StreamRaised"}

\* C1: when the backend call fails (timeout or transport error), no
\* exception leaves miner_process and the completion delivered is the
\* envelope's query text repeated ten times.
C1_FallbackIsQueryTimesTen ==
    BackendFailed =>
        /\ exc = "None"
        /\ m_pc = "Delivered" =>
              /\ Len(sent) = 1
              /\ Utf8Decode(sent[1].body) = StrTimes(synapse.query, 10)

\* C5: when the backend call succeeds, no exception is raised and the
\* completion delivered, read back as text, is the `response` field of the
\* backend's reply.
C5_SuccessDeliversResponse ==
    BackendSucceeded =>
        /\ exc = "None"
        /\ m_pc \in {"Succeeded", "Returned", "Delivered"}
        /\ m_pc = "Delivered" =>
              /\ Len(sent) = 1
              /\ Utf8Decode(sent[1].body) = outcome.body.response

\* A reply with a two-byte character has been delivered.
C5_Witness ==
    /\ BackendSucceeded
    /\ m_pc = "Delivered"
    /\ outcome.body.response = <<233, 97>>
    /\ sent[1].body = <<195, 169, 97>>

\* C9: an invocation of miner_process that has ended has ended in Delivered.
C9_AlwaysDelivered == MinerEnded => m_pc = "Delivered"

\* C10: with `files` absent or empty the backend request is still built and
\* no error is raised.
C10_EmptyFilesServed ==
    (~Truthy(synapse.files) /\ m_pc # "Pending") =>
        /\ IsVal(input)
        /\ exc = "None"

\* The bodies of the frames sent, one after the other.
RECURSIVE Bodies(_)
Bodies(fr) == IF fr = <<>> THEN <<>> ELSE fr[1].body \o Bodies(Tail(fr))

\* C13: the completion is streamed as exactly one body frame, sent when the
\* streamer runs and not before; the frame carries the whole completion as
\* bytes and closes the stream (more_body = FALSE), and nothing is sent
\* after it.
C13_OneClosingChunk ==
    /\ Len(sent) <= 1
    /\ Len(sent) = 1 <=> m_pc = "Delivered"
    /\ m_pc = "Delivered" =>
          /\ sent[1].type = "http.response.body"
          /\ sent[1].more_body = FALSE
          /\ Utf8Decode(Bodies(sent)) = response.val.response
          /\ ~ENABLED MinerNext

\* A fallback completion of twenty code points has been streamed.
C13_Witness ==
    /\ m_pc = "Delivered"
    /\ BackendFailed
    /\ Len(response.val.response) = 20
    /\ Len(sent) = 1
    /\ sent[1].more_body = FALSE

\* C14: the backend is called at most once in an invocation: not before
\* the request is built, and exactly once from then on, whatever the call
\* came to.
C14_SingleAttempt ==
    /\ calls <= 1
    /\ calls = 1 <=> outcome.kind # "none"
    /\ (BackendFailed /\ MinerEnded) => calls = 1

\* A call has failed and the invocation has ended after that one call.
C14_Witness == BackendFailed /\ m_pc = "Delivered" /\ calls = 1

BackendMalformed ==
    \/ outcome.kind = "not_json"
    \/ outcome.kind = "json" /\ "response" \notin DOMAIN outcome.body

\* C17: when the backend's reply is malformed (not JSON, or JSON without a
\* `response` field), no error leaves the proxy or its streamer and the
\* fallback is what is delivered.  Stated for the envelopes whose prompt is
\* their query, where the fallback text is not in question.
C17_MalformedReplyFallsBack ==
    (/\ BackendMalformed
     /\ IsVal(synapse.prompt)
     /\ synapse.prompt.val = synapse.query) =>
        /\ exc = "None"
        /\ MinerEnded =>
              /\ m_pc = "Delivered"
              /\ Utf8Decode(Bodies(sent)) = StrTimes(synapse.query, 10)

(***************************************************************************)
(* Properties of the admission gate and of the priority scorer, checked    *)
(* under GateSpec.                                                         *)
(***************************************************************************)
HasHotkey(d) == IsVal(d) /\ IsVal(d.val.hotkey)
IsOwner(d) == HasHotkey(d) /\ d.val.hotkey.val = OwnerHotkey
Registered(d, mg) ==
    HasHotkey(d) /\ \E i \in DOMAIN mg.hotkeys : mg.hotkeys[i] = d.val.hotkey.val

\* C6: blacklist, called with a caller identity, admits the allow-listed
\* hotkey (blacklisted = FALSE), rejects every other one, the absent hotkey
\* included, and gives a non-empty reason both times.
C6_OnlyOwnerAdmitted ==
    (g_call = "blacklist" /\ IsVal(g_dendrite)) =>
        /\ g_result.raised = "None"
        /\ g_result.value[1] = ~IsOwner(g_dendrite)
        /\ g_result.value[2] # ""

\* The owner has been admitted.
C6_Witness ==
    /\ g_call = "blacklist"
    /\ IsOwner(g_dendrite)
    /\ g_result.raised = "None"
    /\ g_result.value[1] = FALSE

\* C8, as claimed: priority fails for every caller identity that cannot be
\* resolved in the registry, the absent identity included.
C8_UnresolvedAlwaysRaises ==
    (g_call = "priority" /\ ~Registered(g_dendrite, metagraph)) =>
        g_result.raised # "None"

\* C8, amended: priority fails (ValueError) for every hotkey that is given
\* and not registered, and returns 0.0 when the dendrite or the hotkey is
\* absent.
C8_UnregisteredRaisesAbsentIsZero ==
    (g_call = "priority" /\ ~Registered(g_dendrite, metagraph)) =>
        IF HasHotkey(g_dendrite)
        THEN g_result.raised = "ValueError"
        ELSE g_result.raised = "None" /\ g_result.value = 0

\* priority has failed for a hotkey that a non-empty registry does not hold.
C8_Witness ==
    /\ g_call = "priority"
    /\ HasHotkey(g_dendrite)
    /\ metagraph.hotkeys # <<>>
    /\ ~Registered(g_dendrite, metagraph)
    /\ g_result.raised = "ValueError"

\* The stake weight the registry holds for a registered caller.
StakeWeight(d, mg) ==
    mg.S[CHOOSE i \in DOMAIN mg.hotkeys : mg.hotkeys[i] = d.val.hotkey.val]

\* C15: of two registered callers the one with the larger stake weight gets
\* the larger priority.
C15_PriorityMonotonicInStake ==
    (/\ g_call = "priority2"
     /\ Registered(g_dendrite, metagraph)
     /\ Registered(g_other, metagraph)
     /\ StakeWeight(g_dendrite, metagraph) > StakeWeight(g_other, metagraph)) =>
        /\ g_result.raised = "None"
        /\ g_result2.raised = "None"
        /\ g_result.value > g_result2.value

\* The caller registered first holds the larger stake and has got the
\* larger priority.
C15_Witness ==
    /\ g_call = "priority2"
    /\ Registered(g_dendrite, metagraph)
    /\ Registered(g_other, metagraph)
    /\ metagraph.hotkeys[1] = g_dendrite.val.hotkey.val
    /\ StakeWeight(g_dendrite, metagraph) > StakeWeight(g_other, metagraph)
    /\ g_result.value > g_result2.value

(***************************************************************************)
(* Properties of the dispatcher, checked under Spec.                       *)
(***************************************************************************)
Fired(r) == bg[r].mech # "none"

\* C2: _forward returns the organic result; two invocations with the same
\* caller and the same organic result, one with the background pass
\* scheduled and one without, have returned the same value.
C2_ReturnIndependentOfDraw ==
    \A r1, r2 \in Reqs :
        (/\ v_pc[r1] = "Returned"
         /\ v_pc[r2] = "Returned"
         /\ dendrite[r1] = dendrite[r2]
         /\ organic[r1] = organic[r2]) =>
            /\ ret[r1] = ret[r2]
            /\ ret[r1] = organic[r1]

\* Two invocations have returned the same organic result, one with the
\* pass scheduled, one without.
C2_Witness ==
    \E r1, r2 \in Reqs :
        /\ v_pc[r1] = "Returned"
        /\ v_pc[r2] = "Returned"
        /\ organic[r1] = organic[r2]
        /\ Fired(r1)
        /\ ~Fired(r2)
        /\ ret[r1] = "resultB"
        /\ ret[r2] = "resultB"

\* C3: a background pass that failed, as a task or in a thread, left its
\* exception with the task or with the thread that ran it; the caller of
\* _forward has not been failed by it and gets the organic result.
C3_BackgroundFailureIsolated ==
    \A r \in Reqs :
        bg[r].st = "failed" =>
            /\ excAt[r] \in {"Task", "Thread"}
            /\ v_pc[r] \in {"Drawn", "Returned"}
            /\ ret[r] # "raised"
            /\ v_pc[r] = "Returned" => ret[r] = organic[r]

\* A task and a thread have both failed after their callers got the result.
C3_Witness ==
    \E r1, r2 \in Reqs :
        /\ bg[r1].mech = "task" /\ bg[r1].st = "failed"
        /\ bg[r2].mech = "thread" /\ bg[r2].st = "failed"
        /\ v_pc[r1] = "Returned" /\ v_pc[r2] = "Returned"

\* C4: a pass scheduled with a loop running in the calling context is one
\* task on that loop and no thread; a pass scheduled without one is exactly
\* one new thread with a loop of its own, and the thread has ended and the
\* loop is closed once the pass is over.
C4_ContextSelection ==
    \A r \in Reqs :
        /\ probe[r] = "unprobed" <=> ~Fired(r)
        /\ probe[r] = "running" =>
              /\ bg[r].mech = "task"
              /\ bg[r].tasks = 1
              /\ bg[r].threads = 0
              /\ bg[r].loop = "caller"
        /\ probe[r] = "no loop" =>
              /\ bg[r].mech = "thread"
              /\ bg[r].tasks = 0
              /\ bg[r].threads = 1
              /\ IF bg[r].st \in {"done", "failed"}
                 THEN bg[r].thread = "ended" /\ bg[r].loop = "closed"
                 ELSE bg[r].thread = "alive" /\ bg[r].loop = "own"

\* One pass ran as a task, and the thread of another has ended.
C4_Witness ==
    \E r1, r2 \in Reqs :
        /\ probe[r1] = "running" /\ bg[r1].st = "done"
        /\ probe[r2] = "no loop" /\ bg[r2].thread = "ended"

\* C7: a request whose caller is not the allow-listed hotkey never gets
\* past the admission gate: no organic computation, no draw and no
\* background pass is ever started for it.
C7_RejectedBeforeAnyWork ==
    \A r \in Reqs :
        (v_pc[r] # "Idle" /\ ~IsOwner(dendrite[r])) =>
            /\ v_pc[r] \in {"Received", "Rejected", "GateFailed"}
            /\ organic[r] = "none"
            /\ draw[r] = -1
            /\ bg[r] = NoBg
            /\ ret[r] = "none"

\* One request has been rejected while another has been served.
C7_Witness ==
    \E r1, r2 \in Reqs :
        /\ v_pc[r1] = "Rejected"
        /\ HasHotkey(dendrite[r1])
        /\ organic[r1] = "none"
        /\ v_pc[r2] = "Returned"

\* C11: when the organic path raises, the call of _forward fails with
\* that exception: nothing is returned, no draw is made and no background
\* pass is scheduled.
C11_OrganicFailurePropagates ==
    \A r \in Reqs :
        organic[r] = "raised" =>
            /\ v_pc[r] = "Failed"
            /\ ret[r] = "raised"
            /\ draw[r] = -1
            /\ ~Fired(r)

\* The organic path of one request has failed while another was served.
C11_Witness ==
    \E r1, r2 \in Reqs :
        /\ organic[r1] = "raised"
        /\ v_pc[r1] = "Failed"
        /\ v_pc[r2] = "Returned"

\* C12: once the organic path has returned, _forward returns, whether or
\* not the background pass it scheduled ever finishes.
C12_ReturnsWithoutWaiting ==
    \A r \in Reqs : (v_pc[r] = "OrganicDone") ~> (v_pc[r] = "Returned")

\* _forward has returned with a task still pending and with a thread still
\* running.
C12_Witness ==
    \E r1, r2 \in Reqs :
        /\ v_pc[r1] = "Returned" /\ bg[r1].mech = "task" /\ bg[r1].st = "pending"
        /\ v_pc[r2] = "Returned" /\ bg[r2].mech = "thread" /\ bg[r2].st = "running"

Ended(r) == v_pc[r] \in {"Returned", "Failed"}
Below(r) == draw[r] # -1 /\ draw[r] < percent_organic_score

\* C16, as claimed: every invocation of _forward that has ended, by a
\* return or by the failure of the organic path, has made the draw and has
\* scheduled the background pass when the draw was below the threshold.
C16_DrawWhateverTheOrganicOutcome ==
    \A r \in Reqs :
        (Ended(r) /\ organic[r] # "none") =>
            /\ draw[r] \in Draws
            /\ Below(r) => Fired(r)

\* C16, amended: an invocation whose organic path returned makes the draw
\* and schedules the background pass when the draw is below the threshold;
\* an invocation whose organic path raised makes no draw and schedules
\* nothing.
C16_DrawOnlyAfterOrganicReturns ==
    \A r \in Reqs :
        /\ (v_pc[r] \in {"Drawn", "Returned"}) =>
              /\ organic[r] \in OrganicResults
              /\ draw[r] \in Draws
              /\ Below(r) => Fired(r)
        /\ organic[r] = "raised" => (draw[r] = -1 /\ ~Fired(r))

\* One invocation has scheduled its pass after its organic path returned,
\* and another, whose organic path raised, has made no draw.
C16_Witness ==
    \E r1, r2 \in Reqs :
        /\ v_pc[r1] = "Returned" /\ Below(r1) /\ Fired(r1)
        /\ organic[r2] = "raised" /\ draw[r2] = -1

\* C18: the completion handed to the caller is the one the organic path
\* wrote, whether the background pass, which is given the same envelope, ran
\* before or after the return.
C18_DeliveredCompletionUntouched ==
    \A r \in Reqs :
        v_pc[r] = "Returned" =>
            /\ completion[r] = organic[r]
            /\ completion[r] = ret[r]

\* Both kinds of background pass are over and the completions stand.
C18_Witness ==
    \E r1, r2 \in Reqs :
        /\ v_pc[r1] = "Returned" /\ bg[r1].mech = "task" /\ bg[r1].st = "done"
        /\ v_pc[r2] = "Returned" /\ bg[r2].mech = "thread" /\ bg[r2].st = "done"
        /\ completion[r1] = "resultA"
        /\ completion[r2] = "resultB"

RECURSIVE SumOver(_, _)
SumOver(f, S) ==
    IF S = {} THEN 0
    ELSE LET x == CHOOSE y \in S : TRUE IN f[x] + SumOver(f, S \ {x})

PassesStarted == SumOver([r \in Reqs |-> bg[r].tasks + bg[r].threads], Reqs)
DrawsBelow == Cardinality({r \in Reqs : Below(r)})

\* C19: an invocation starts at most one background pass, as a task or as a
\* thread and never as both, and over all invocations no more passes have
\* been started than draws were below the threshold.
C19_AtMostOnePass ==
    /\ \A r \in Reqs :
          /\ bg[r].tasks + bg[r].threads <= 1
          /\ bg[r].mech = "task" => (bg[r].tasks = 1 /\ bg[r].threads = 0)
          /\ bg[r].mech = "thread" => (bg[r].tasks = 0 /\ bg[r].threads = 1)
          /\ bg[r].mech = "none" => (bg[r].tasks = 0 /\ bg[r].threads = 0)
    /\ PassesStarted <= DrawsBelow

\* Two invocations have a pass each in flight, one a task and one a thread.
C19_Witness ==
    /\ \E r1, r2 \in Reqs :
          /\ bg[r1].mech = "task" /\ bg[r1].st = "pending"
          /\ bg[r2].mech = "thread" /\ bg[r2].st = "running"
    /\ PassesStarted = 2

\* C20: a background pass has been started exactly for the invocations
\* whose draw was strictly below percent_organic_score, never with a
\* threshold of 0, and only after the organic path of the same request had
\* returned.
C20_StrictThreshold ==
    \A r \in Reqs :
        /\ (v_pc[r] \in {"Drawn", "Returned"}) =>
              (Fired(r) <=> draw[r] < percent_organic_score)
        /\ percent_organic_score = 0 => ~Fired(r)
        /\ Fired(r) => (organic[r] \in OrganicResults /\ draw[r] \in Draws)

\* A draw equal to the threshold has scheduled nothing, next to a draw
\* below it that has.
C20_Witness ==
    \E r1, r2 \in Reqs :
        /\ v_pc[r1] = "Returned"
        /\ draw[r1] = percent_organic_score
        /\ ~Fired(r1)
        /\ v_pc[r2] = "Returned"
        /\ draw[r2] < percent_organic_score
        /\ Fired(r2)

====
